---- MODULE Spec2Model ----
(***************************************************************************)
(* tenper: a tmux wrapper with support for Python virtualenv.              *)
(*                                                                         *)
(* The model covers tenper.py: the filesystem under ~/.tenper and the      *)
(* virtualenv directories, the tmux server tenper talks to, and the        *)
(* handlers parse_args dispatches to.  start is modelled one run(...) call *)
(* group at a time; the other handlers are one action each.                *)
(***************************************************************************)
EXTENDS Integers, Sequences, FiniteSets, TLC

\* ------------------------------------------------------------------------
\* Bounds of the model
\* ------------------------------------------------------------------------
MaxWindows == 2
MaxPanes == 2
MaxEnvVars == 1

\* ------------------------------------------------------------------------
\* Values
\* ------------------------------------------------------------------------
None == "None"
NoFile == [missing |-> TRUE]
NoPath == <<>>

\* The one project whose files are modelled, and the names given on the
\* command line.
Env == "p"
ProjectNames == {"p", "list", "completions"}
SessionNames == {"p", "s"}

Home == "/home/u"
expandvars(path) == [i \in DOMAIN path |-> IF path[i] = "$HOME" THEN Home ELSE path[i]]
join(a, b) == a \o b

configs == <<Home, ".tenper">>
virtualenvs == <<Home, ".virtualenvs">>

CustomPath == <<"$HOME", ".venv">>

\* The keys of an 'environment' section with n entries.
EnvKeys(n) == 1..n

\* A window of a configuration: its pane commands and whether it names a
\* layout.  Names and commands are told apart by their position.
WindowName(i) == <<"name", i>>
PaneCommand(i, j) == <<"cmd", i, j>>
Window(i, k, layout) ==
    [name |-> WindowName(i),
     panes |-> [j \in 1..k |-> PaneCommand(i, j)],
     layout |-> IF layout THEN "main-vertical" ELSE ""]

Shapes == (1..MaxPanes) \X BOOLEAN
WindowLists ==
    UNION {[1..n -> Shapes] : n \in 0..MaxWindows}
Windows(shapes) ==
    [i \in DOMAIN shapes |-> Window(i, shapes[i][1], shapes[i][2])]

Config(session, venv, nenv, windows) ==
    [session_name |-> session,
     virtualenv |-> venv,
     project_root |-> <<"$HOME">>,
     environment |-> EnvKeys(nenv),
     windows |-> windows]

NoVenv == [present |-> FALSE, path |-> NoPath]
DefaultVenv == [present |-> TRUE, path |-> NoPath]
CustomVenv == [present |-> TRUE, path |-> CustomPath]

\* What edit writes for a new environment.
config_template(env) ==
    Config(env, CustomVenv, 2,
           <<Window(1, 1, FALSE), Window(2, 3, TRUE)>>)

\* Configurations a user may have written: every window list for the plain
\* session, and every placement of the virtualenv for a one-window session.
Configs ==
    {Config(Env, v, n, Windows(ws)) :
        v \in {NoVenv, DefaultVenv}, n \in 0..MaxEnvVars, ws \in WindowLists}
    \cup
    {Config(s, v, 0, Windows(<<<<1, FALSE>>>>)) :
        s \in SessionNames, v \in {NoVenv, DefaultVenv, CustomVenv}}

\* ------------------------------------------------------------------------
\* State
\* ------------------------------------------------------------------------
VARIABLES
    configFile,   \* contents of ~/.tenper/p.yml, or NoFile
    configsDir,   \* whether ~/.tenper exists
    dirs,         \* the virtualenv directories that exist
    sessions,     \* the tmux server: the sessions that exist, by name
    tmux,         \* the server's base-index and pane-base-index
    argv,         \* the command line of the running invocation
    handler,      \* the handler parse_args chose
    project,      \* the project name parse_args chose
    pc,           \* where the running handler is
    loc,          \* the local variables of start
    cmds,         \* the external commands run so far by this invocation
    answer,       \* what the user typed at delete's prompt
    stdout,       \* what the handler printed
    outcome,      \* how the handler ended
    pre           \* the filesystem and the server when the handler began

vars == <<configFile, configsDir, dirs, sessions, tmux, argv, handler, project,
          pc, loc, cmds, answer, stdout, outcome, pre>>

\* ------------------------------------------------------------------------
\* The tmux server, as far as the commands tenper sends are concerned.
\* Every command returns the server after it and its exit status.  The
\* server runs with its default options apart from base-index and
\* pane-base-index; a new pane is placed after the window's active pane.
\* ------------------------------------------------------------------------
Ok(S) == [S |-> S, status |-> 0]
Fail(S) == [S |-> S, status |-> 1]

Put(f, k, v) == [x \in (DOMAIN f) \cup {k} |-> IF x = k THEN v ELSE f[x]]
Drop(f, k) == [x \in (DOMAIN f) \ {k} |-> f[x]]
Min(S) == CHOOSE x \in S : \A y \in S : x <= y

ShellName == <<"name", 0>>
FreshPane(id) == [id |-> id, keys |-> <<>>]
FreshWindow(name, environment) ==
    [name |-> name, env |-> environment, layout |-> "default",
     panes |-> <<FreshPane(0)>>, active |-> 0, next_id |-> 1]

HasSession(S, s) == s \in DOMAIN S
HasWindow(S, s, w) == HasSession(S, s) /\ w \in DOMAIN S[s].windows
\* The position in the window's pane list of the pane with index p.
PanePos(p) == p - tmux.pane_base_index + 1
HasPane(S, s, w, p) ==
    HasWindow(S, s, w) /\ PanePos(p) \in 1..Len(S[s].windows[w].panes)
PosOfId(panes, id) == CHOOSE i \in 1..Len(panes) : panes[i].id = id

tmux_has_session(S, s) == IF HasSession(S, s) THEN Ok(S) ELSE Fail(S)

tmux_new_session(S, s) ==
    IF HasSession(S, s) THEN Fail(S)
    ELSE Ok(Put(S, s,
                [windows |-> (tmux.base_index :> FreshWindow(ShellName, {})),
                 options |-> <<>>,
                 environment |-> {}]))

tmux_set_option(S, s, option, value) ==
    IF ~HasSession(S, s) THEN Fail(S)
    ELSE Ok([S EXCEPT ![s].options = Put(@, option, value)])

tmux_set_environment(S, s, key) ==
    IF ~HasSession(S, s) THEN Fail(S)
    ELSE Ok([S EXCEPT ![s].environment = @ \cup {key}])

tmux_new_window(S, s, w, name) ==
    IF ~HasSession(S, s) \/ HasWindow(S, s, w) THEN Fail(S)
    ELSE Ok([S EXCEPT ![s].windows =
                Put(@, w, FreshWindow(name, S[s].environment))])

\* Killing the last window of a session ends the session.
tmux_kill_window(S, s, w) ==
    IF ~HasWindow(S, s, w) THEN Fail(S)
    ELSE IF DOMAIN S[s].windows = {w} THEN Ok(Drop(S, s))
    ELSE Ok([S EXCEPT ![s].windows = Drop(@, w)])

tmux_move_window(S, s, src, dst) ==
    IF ~HasWindow(S, s, src) \/ HasWindow(S, s, dst) THEN Fail(S)
    ELSE Ok([S EXCEPT ![s].windows = Put(Drop(@, src), dst, S[s].windows[src])])

tmux_split_window(S, s, w, p) ==
    IF ~HasPane(S, s, w, p) THEN Fail(S)
    ELSE LET win == S[s].windows[w]
             at == PosOfId(win.panes, win.active)
             panes == SubSeq(win.panes, 1, at) \o <<FreshPane(win.next_id)>>
                      \o SubSeq(win.panes, at + 1, Len(win.panes))
         IN Ok([S EXCEPT ![s].windows[w] =
                    [win EXCEPT !.panes = panes,
                                !.active = win.next_id,
                                !.next_id = win.next_id + 1]])

tmux_send_keys(S, s, w, p, keys) ==
    IF ~HasPane(S, s, w, p) THEN Fail(S)
    ELSE Ok([S EXCEPT ![s].windows[w].panes[PanePos(p)].keys = Append(@, keys)])

tmux_select_layout(S, s, w, layout) ==
    IF ~HasWindow(S, s, w) THEN Fail(S)
    ELSE Ok([S EXCEPT ![s].windows[w].layout = layout])

tmux_select_pane(S, s, w, p) ==
    IF ~HasPane(S, s, w, p) THEN Fail(S)
    ELSE Ok([S EXCEPT ![s].windows[w].active =
                S[s].windows[w].panes[PanePos(p)].id])

\* 'tmux list-windows' / 'tmux list-panes': the index on the first line.
first_window_index(S, s) == Min(DOMAIN S[s].windows)
first_pane_index(S, s, w) == tmux.pane_base_index

\* ------------------------------------------------------------------------
\* run: one external command, as recorded in cmds.  iter is the window of
\* the configuration (counted from 0) the command was issued for, -1 for a
\* command outside the window loop; free tells whether the index a
\* new-window or move-window aimed at was unoccupied.
\* ------------------------------------------------------------------------
run(tool, verb, iter, status, free) ==
    [tool |-> tool, verb |-> verb, iter |-> iter, status |-> status, free |-> free]

\* ------------------------------------------------------------------------
\* parse_args: the handler and the project name for a command line.
\* ------------------------------------------------------------------------
Subcommands == {"edit", "rebuild", "delete"}
CommandLines ==
    {<<P>> : P \in ProjectNames} \cup
    {<<c, P>> : c \in Subcommands, P \in ProjectNames}

ParsedNamespace(args) ==
    IF Len(args) = 1
    THEN [project_name |-> args[1]]
    ELSE [command |-> args[1], project_name |-> args[2]]

HandlerFor(parsed) ==
    IF parsed.project_name = "list" THEN "list_envs"
    ELSE IF parsed.project_name = "completions" THEN "completions"
    ELSE IF "command" \in DOMAIN parsed THEN parsed.command
    ELSE "start"

parse_args(args) ==
    LET parsed == ParsedNamespace(args)
        proj == IF parsed.project_name # "" THEN parsed.project_name ELSE None
    IN <<HandlerFor(parsed), proj>>

\* ------------------------------------------------------------------------
\* Files and directories
\* ------------------------------------------------------------------------
ConfigExists(env) == env = Env /\ configFile # NoFile

\* config_for raises when the file is missing.
config_for(env) == configFile

\* The directory confirm_virtualenv works on.
venv_dir(config) ==
    IF config.virtualenv.path # NoPath
    THEN expandvars(config.virtualenv.path)
    ELSE join(virtualenvs, <<config.session_name>>)

\* The activate script start sources in the panes.
virtualenv_path(config) ==
    expandvars(join(IF config.virtualenv.path # NoPath
                    THEN config.virtualenv.path
                    ELSE join(virtualenvs, <<config.session_name>>),
                    <<"bin", "activate">>))

\* The directory delete offers to remove.
delete_virtualenv(env) == join(virtualenvs, <<env>>)

\* confirm_virtualenv on the directories D, the virtualenv tool exiting with
\* status: the directories after it, the commands it ran, and whether it
\* raised (shutil.rmtree of a directory that is not there).
confirm_virtualenv(config, delete_first, D, status) ==
    LET path == venv_dir(config)
        same == [dirs |-> D, cmds |-> <<>>, raised |-> FALSE]
    IN IF ~config.virtualenv.present THEN same
       ELSE IF path \in D /\ ~delete_first THEN same
       ELSE IF delete_first /\ path \notin D
            THEN [dirs |-> D, cmds |-> <<>>, raised |-> TRUE]
       ELSE LET D1 == IF delete_first THEN D \ {path} ELSE D
            IN [dirs |-> IF status = 0 THEN D1 \cup {path} ELSE D1,
                cmds |-> <<run("virtualenv", "-p", -1, status, TRUE)>>,
                raised |-> FALSE]

\* str.strip() on the answer to a prompt, a sequence of characters.
RECURSIVE lstrip(_)
lstrip(r) == IF r # <<>> /\ Head(r) = " " THEN lstrip(Tail(r)) ELSE r
RECURSIVE rstrip(_)
rstrip(r) ==
    IF r # <<>> /\ r[Len(r)] = " " THEN rstrip(SubSeq(r, 1, Len(r) - 1)) ELSE r
strip(r) == rstrip(lstrip(r))

Yes == {<<"y", "e", "s">>, <<"Y", "E", "S">>, <<"y">>, <<"Y">>}
Answers == Yes \cup {<<"n">>, <<>>, <<"Y", "e", "s">>, <<" ", "y", " ">>, <<" ">>}
\* A variant that takes an empty answer for consent.
AffirmativeOrEmpty(resp) == strip(resp) \in Yes \cup {<<>>}
Affirmative(resp) == strip(resp) \in Yes

NoAnswer == [asked |-> FALSE, resp |-> <<>>]
NoLoc ==
    [config |-> NoFile, base_index |-> 0, index |-> 0, base_pindex |-> 0,
     pindex |-> 0, env_left |-> {}]
Snapshot ==
    [configFile |-> configFile, configsDir |-> configsDir, dirs |-> dirs,
     sessions |-> sessions]
NoSnapshot ==
    [configFile |-> NoFile, configsDir |-> FALSE, dirs |-> {}, sessions |-> <<>>]

ExitStatuses == {0, 1}

\* ------------------------------------------------------------------------
\* Initial states: a written configuration, no virtualenv, no session.
\* ------------------------------------------------------------------------
Init ==
    /\ configFile \in Configs
    /\ configsDir = TRUE
    /\ dirs = {}
    /\ sessions = <<>>
    /\ tmux \in [base_index : {0, 1}, pane_base_index : {0, 1}]
    /\ argv = <<>>
    /\ handler = None
    /\ project = None
    /\ pc = "idle"
    /\ loc = NoLoc
    /\ cmds = <<>>
    /\ answer = NoAnswer
    /\ stdout = <<>>
    /\ outcome = None
    /\ pre = NoSnapshot

fsVars == <<configFile, configsDir, dirs>>
callVars == <<argv, handler, project, pre>>

\* A run of the program: the command line is parsed and the handler is about
\* to be called.  Each run starts with nothing of the run before it but the
\* filesystem and the tmux server.
ParseArgs(args) ==
    /\ pc \in {"idle", "done"}
    /\ argv' = args
    /\ handler' = parse_args(args)[1]
    /\ project' = parse_args(args)[2]
    /\ pc' = "parsed"
    /\ pre' = Snapshot
    /\ loc' = NoLoc
    /\ cmds' = <<>>
    /\ answer' = NoAnswer
    /\ stdout' = <<>>
    /\ outcome' = None
    /\ UNCHANGED <<fsVars, sessions, tmux>>

\* The yaml files in ~/.tenper, without the extension.
Environments == IF configsDir /\ configFile # NoFile THEN <<Env>> ELSE <<>>

list_envs ==
    /\ pc = "parsed" /\ handler = "list_envs"
    /\ stdout' = Environments
    /\ pc' = "done"
    /\ outcome' = "returned"
    /\ UNCHANGED <<fsVars, sessions, tmux, callVars, loc, cmds, answer>>

completions ==
    /\ pc = "parsed" /\ handler = "completions"
    /\ stdout' = <<"list", "edit", "rebuild", "delete">> \o Environments
    /\ pc' = "done"
    /\ outcome' = "returned"
    /\ UNCHANGED <<fsVars, sessions, tmux, callVars, loc, cmds, answer>>

\* edit: the editor is run on the file and leaves it as it found it.
edit ==
    /\ pc = "parsed" /\ handler = "edit"
    /\ configsDir' = TRUE
    /\ configFile' = IF ConfigExists(project) THEN configFile
                     ELSE config_template(project)
    /\ \E status \in ExitStatuses :
          cmds' = Append(cmds, run("editor", "", -1, status, TRUE))
    /\ pc' = "done"
    /\ outcome' = "returned"
    /\ UNCHANGED <<dirs, sessions, tmux, callVars, loc, answer, stdout>>

\* delete: the prompt is shown only when ~/.virtualenvs/<env> exists; other
\* files may keep ~/.tenper from being removed.
delete ==
    /\ pc = "parsed" /\ handler = "delete"
    /\ LET virtualenv == delete_virtualenv(project)
       IN \E resp \in Answers, empty \in BOOLEAN :
            /\ answer' = IF virtualenv \in dirs
                         THEN [asked |-> TRUE, resp |-> resp] ELSE NoAnswer
            /\ LET removed == virtualenv \in dirs /\ Affirmative(resp)
               IN /\ dirs' = IF removed THEN dirs \ {virtualenv} ELSE dirs
                  /\ IF ConfigExists(project)
                     THEN /\ configFile' = NoFile
                          /\ configsDir' = ~empty
                          /\ stdout' = (IF removed THEN <<"Deleted">> ELSE <<>>)
                                       \o <<"Removed">>
                          /\ outcome' = "returned"
                     ELSE /\ UNCHANGED <<configFile, configsDir>>
                          /\ stdout' = IF removed THEN <<"Deleted">> ELSE <<>>
                          /\ outcome' = "raised"
    /\ pc' = "done"
    /\ UNCHANGED <<sessions, tmux, callVars, loc, cmds>>

rebuild ==
    /\ pc = "parsed" /\ handler = "rebuild"
    /\ IF ~ConfigExists(project)
       THEN /\ outcome' = "raised"
            /\ UNCHANGED <<dirs, cmds>>
       ELSE \E status \in ExitStatuses :
              LET r == confirm_virtualenv(config_for(project), TRUE, dirs, status)
              IN /\ dirs' = r.dirs
                 /\ cmds' = cmds \o r.cmds
                 /\ outcome' = IF r.raised THEN "raised" ELSE "returned"
    /\ pc' = "done"
    /\ UNCHANGED <<configFile, configsDir, sessions, tmux, callVars, loc,
                   answer, stdout>>

\* ------------------------------------------------------------------------
\* start
\* ------------------------------------------------------------------------
tmux_attach_session(S, s) == IF HasSession(S, s) THEN Ok(S) ELSE Fail(S)

Tmux(verb, iter, status) == run("tmux", verb, iter, status, TRUE)

\* The short circuit for a preexisting session.
\* A variant without the short circuit.
AfterHasSessionNoShortCircuit(status) == "new_session"
AfterHasSession(status) == IF status = 0 THEN "reattach" ELSE "new_session"

\* Where the first configured window is created before it takes the place
\* of the session's initial window.
\* A variant that creates the first window in the initial window's place.
temp_index_in_place(base_index) == base_index
temp_index(base_index) == base_index + 1
window_index(base_index, index) == base_index + index

\* The loop over config['windows'] goes on or start attaches.
\* A variant that leaves the loop one window early.
AfterWindowOffByOne(index, n) == IF index + 1 < n THEN "window" ELSE "attach"
AfterWindow(index, n) == IF index < n THEN "window" ELSE "attach"

start_begin ==
    /\ pc = "parsed" /\ handler = "start"
    /\ IF ~ConfigExists(project)
       THEN /\ outcome' = "raised"
            /\ pc' = "done"
            /\ UNCHANGED <<dirs, cmds, loc>>
       ELSE \E status \in ExitStatuses :
              LET config == config_for(project)
                  r == confirm_virtualenv(config, FALSE, dirs, status)
                  h == tmux_has_session(sessions, config.session_name)
              IN /\ dirs' = r.dirs
                 /\ cmds' = cmds \o r.cmds \o <<Tmux("has-session", -1, h.status)>>
                 /\ loc' = [NoLoc EXCEPT !.config = config]
                 /\ pc' = AfterHasSession(h.status)
                 /\ UNCHANGED outcome
    /\ UNCHANGED <<configFile, configsDir, sessions, tmux, callVars, answer, stdout>>

start_reattach ==
    /\ pc = "reattach"
    /\ LET r == tmux_attach_session(sessions, loc.config.session_name)
       IN /\ sessions' = r.S
          /\ cmds' = Append(cmds, Tmux("attach-session", -1, r.status))
    /\ pc' = "done"
    /\ outcome' = "returned"
    /\ UNCHANGED <<fsVars, tmux, callVars, loc, answer, stdout>>

start_new_session ==
    /\ pc = "new_session"
    /\ LET r == tmux_new_session(sessions, loc.config.session_name)
       IN /\ sessions' = r.S
          /\ cmds' = Append(cmds, Tmux("new-session", -1, r.status))
    /\ pc' = "set_options"
    /\ UNCHANGED <<fsVars, tmux, callVars, loc, answer, stdout, outcome>>

start_set_options ==
    /\ pc = "set_options"
    /\ LET s == loc.config.session_name
           r1 == tmux_set_option(sessions, s, "default-path",
                                 expandvars(loc.config.project_root))
           r2 == tmux_set_option(r1.S, s, "status-left-length", Len(s) + 2)
       IN /\ sessions' = r2.S
          /\ cmds' = cmds \o <<Tmux("set-option", -1, r1.status),
                               Tmux("set-option", -1, r2.status)>>
    /\ loc' = [loc EXCEPT !.env_left = loc.config.environment]
    /\ pc' = IF loc.config.environment # {} THEN "set_environment"
             ELSE "list_windows"
    /\ UNCHANGED <<fsVars, tmux, callVars, answer, stdout, outcome>>

\* One turn of the loop over config['environment'], in the dictionary's order.
start_set_environment ==
    /\ pc = "set_environment"
    /\ \E k \in loc.env_left :
          LET r == tmux_set_environment(sessions, loc.config.session_name, k)
          IN /\ sessions' = r.S
             /\ cmds' = Append(cmds, Tmux("set-environment", -1, r.status))
             /\ loc' = [loc EXCEPT !.env_left = @ \ {k}]
             /\ pc' = IF loc.env_left = {k} THEN "list_windows"
                      ELSE "set_environment"
    /\ UNCHANGED <<fsVars, tmux, callVars, answer, stdout, outcome>>

\* base_index from 'tmux list-windows'; check_output raises when it fails.
start_list_windows ==
    /\ pc = "list_windows"
    /\ LET s == loc.config.session_name
       IN IF ~HasSession(sessions, s)
          THEN /\ pc' = "done"
               /\ outcome' = "raised"
               /\ UNCHANGED loc
          ELSE /\ loc' = [loc EXCEPT !.base_index = first_window_index(sessions, s),
                                     !.index = 0]
               /\ pc' = AfterWindow(0, Len(loc.config.windows))
               /\ UNCHANGED outcome
    /\ UNCHANGED <<fsVars, sessions, tmux, callVars, cmds, answer, stdout>>

\* The window commands of one turn of the loop over config['windows']: the
\* server after them and the commands run.
create_window(S, s, base_index, index, name) ==
    IF index = 0
    THEN LET base_target == base_index
             temp_target == temp_index(base_index)
             r1 == tmux_new_window(S, s, temp_target, name)
             r2 == tmux_kill_window(r1.S, s, base_target)
             r3 == tmux_move_window(r2.S, s, temp_target, base_target)
         IN [S |-> r3.S,
             cmds |-> <<run("tmux", "new-window", index, r1.status,
                            ~HasWindow(S, s, temp_target)),
                        Tmux("kill-window", index, r2.status),
                        run("tmux", "move-window", index, r3.status,
                            ~HasWindow(r2.S, s, base_target))>>]
    ELSE LET window_target == window_index(base_index, index)
             r == tmux_new_window(S, s, window_target, name)
         IN [S |-> r.S,
             cmds |-> <<run("tmux", "new-window", index, r.status,
                            ~HasWindow(S, s, window_target))>>]

start_window ==
    /\ pc = "window"
    /\ LET s == loc.config.session_name
           window == loc.config.windows[loc.index + 1]
           window_target == window_index(loc.base_index, loc.index)
           c == create_window(sessions, s, loc.base_index, loc.index, window.name)
       IN /\ sessions' = c.S
          /\ cmds' = cmds \o c.cmds
          /\ IF ~HasWindow(c.S, s, window_target)
             THEN /\ pc' = "done"
                  /\ outcome' = "raised"
                  /\ UNCHANGED loc
             ELSE /\ loc' = [loc EXCEPT
                               !.base_pindex = first_pane_index(c.S, s, window_target),
                               !.pindex = 0]
                  /\ pc' = IF Len(window.panes) > 0 THEN "pane" ELSE "finish_window"
                  /\ UNCHANGED outcome
    /\ UNCHANGED <<fsVars, tmux, callVars, answer, stdout>>

\* The pane that split-window is aimed at.
split_target == 0

\* One turn of the loop over window['panes'].
start_pane ==
    /\ pc = "pane"
    /\ LET s == loc.config.session_name
           i == loc.index
           window == loc.config.windows[i + 1]
           window_target == window_index(loc.base_index, i)
           pane == window.panes[loc.pindex + 1]
           pane_target == loc.base_pindex + loc.pindex
           r1 == IF loc.pindex # 0
                 THEN tmux_split_window(sessions, s, window_target, split_target)
                 ELSE Ok(sessions)
           c1 == IF loc.pindex # 0
                 THEN <<Tmux("split-window", i, r1.status)>> ELSE <<>>
           r2 == IF loc.config.virtualenv.present
                 THEN tmux_send_keys(r1.S, s, window_target, pane_target,
                                     <<"source", virtualenv_path(loc.config)>>)
                 ELSE Ok(r1.S)
           c2 == IF loc.config.virtualenv.present
                 THEN <<Tmux("send-keys", i, r2.status)>> ELSE <<>>
           r3 == IF pane # <<>>
                 THEN tmux_send_keys(r2.S, s, window_target, pane_target, pane)
                 ELSE Ok(r2.S)
           c3 == IF pane # <<>>
                 THEN <<Tmux("send-keys", i, r3.status)>> ELSE <<>>
       IN /\ sessions' = r3.S
          /\ cmds' = cmds \o c1 \o c2 \o c3
          /\ loc' = [loc EXCEPT !.pindex = @ + 1]
          /\ pc' = IF loc.pindex + 1 < Len(window.panes) THEN "pane"
                   ELSE "finish_window"
    /\ UNCHANGED <<fsVars, tmux, callVars, answer, stdout, outcome>>

start_finish_window ==
    /\ pc = "finish_window"
    /\ LET s == loc.config.session_name
           i == loc.index
           window == loc.config.windows[i + 1]
           window_target == window_index(loc.base_index, i)
           r1 == IF window.layout # ""
                 THEN tmux_select_layout(sessions, s, window_target, window.layout)
                 ELSE Ok(sessions)
           c1 == IF window.layout # ""
                 THEN <<Tmux("select-layout", i, r1.status)>> ELSE <<>>
           r2 == tmux_select_pane(r1.S, s, window_target, loc.base_pindex)
       IN /\ sessions' = r2.S
          /\ cmds' = cmds \o c1 \o <<Tmux("select-pane", i, r2.status)>>
          /\ loc' = [loc EXCEPT !.index = @ + 1]
          /\ pc' = AfterWindow(i + 1, Len(loc.config.windows))
    /\ UNCHANGED <<fsVars, tmux, callVars, answer, stdout, outcome>>

start_attach ==
    /\ pc = "attach"
    /\ LET r == tmux_attach_session(sessions, loc.config.session_name)
       IN /\ sessions' = r.S
          /\ cmds' = Append(cmds, Tmux("attach-session", -1, r.status))
    /\ pc' = "done"
    /\ outcome' = "returned"
    /\ UNCHANGED <<fsVars, tmux, callVars, loc, answer, stdout>>

Next ==
    \/ \E args \in CommandLines : ParseArgs(args)
    \/ list_envs
    \/ completions
    \/ edit
    \/ delete
    \/ rebuild
    \/ start_begin
    \/ start_reattach
    \/ start_new_session
    \/ start_set_options
    \/ start_set_environment
    \/ start_list_windows
    \/ start_window
    \/ start_pane
    \/ start_finish_window
    \/ start_attach

Spec == Init /\ [][Next]_vars

\* ------------------------------------------------------------------------
\* Properties
\* ------------------------------------------------------------------------
Done == pc = "done"
TmuxCmds == SelectSeq(cmds, LAMBDA c : c.tool = "tmux")
Issued(verb) == \E i \in DOMAIN cmds : cmds[i].verb = verb
Count(verb, iter) ==
    Cardinality({i \in DOMAIN cmds : cmds[i].verb = verb /\ cmds[i].iter = iter})
\* The process exit code: an uncaught exception ends the interpreter with 1,
\* a handler that returns ends it with 0.
exit_code == IF outcome = "raised" THEN 1 ELSE 0

\* start found the session (has-session exited with 0).
FoundSession ==
    /\ handler = "start"
    /\ \E i \in DOMAIN cmds : cmds[i].verb = "has-session" /\ cmds[i].status = 0
\* start is building, or has built, a new session.
Building == handler = "start" /\ Issued("new-session")
Built == Building /\ Done /\ outcome = "returned"
FsUnchanged ==
    /\ configFile = pre.configFile
    /\ configsDir = pre.configsDir
    /\ dirs = pre.dirs
HadConfig == pre.configFile # NoFile

\* C1: when has-session reports that the session exists, start issues no
\* tmux command but has-session followed by attach-session, and the sessions
\* of the server (windows, panes, options, environment) stay as they were
\* when start was called.
C1_ReattachLeavesSession ==
    FoundSession =>
        /\ sessions = pre.sessions
        /\ LET T == TmuxCmds
           IN /\ Len(T) <= 2
              /\ T[1].verb = "has-session"
              /\ Len(T) = 2 => T[2].verb = "attach-session"
              /\ Done => Len(T) = 2
C1_Witness ==
    /\ FoundSession /\ Done /\ outcome = "returned"
    /\ Cardinality(DOMAIN sessions[loc.config.session_name].windows) >= 2
    /\ sessions[loc.config.session_name].environment # {}

\* C2: when a command other than the has-session test exits with a non-zero
\* status, the program's exit code is non-zero.
C2_StatusPropagated ==
    (Done /\ \E i \in DOMAIN cmds :
                cmds[i].verb # "has-session" /\ cmds[i].status # 0)
        => exit_code # 0

\* C3: start, rebuild and delete on a missing configuration file end in an
\* error with no command issued and no file or directory created or deleted.
C3_MissingConfigAborts ==
    (Done /\ handler \in {"start", "rebuild", "delete"} /\ ~HadConfig)
        => /\ outcome = "raised"
           /\ cmds = <<>>
           /\ FsUnchanged

\* C4 as stated: an answer other than 'yes', 'YES', 'y', 'Y' to delete's
\* prompt leaves the virtualenv directory, the configuration file and the
\* configuration directory as they were.
C4_DeclinedChangesNothing ==
    (Done /\ handler = "delete" /\ answer.asked /\ answer.resp \notin Yes)
        => FsUnchanged

\* C4 amended: an answer that, stripped of surrounding whitespace, is other
\* than 'yes', 'YES', 'y', 'Y' leaves every virtualenv directory as it was;
\* the configuration file is removed all the same (delete raises if there is
\* none), and the configuration directory goes with it when that empties it.
C4_DeclinedKeepsVirtualenv ==
    (Done /\ handler = "delete" /\ answer.asked /\ strip(answer.resp) \notin Yes)
        => /\ dirs = pre.dirs
           /\ configFile = NoFile
           /\ (outcome = "returned") <=> HadConfig
           /\ ~HadConfig => configsDir = pre.configsDir
C4_Witness ==
    /\ Done /\ handler = "delete" /\ answer.asked
    /\ strip(answer.resp) \notin Yes
    /\ HadConfig
    /\ delete_virtualenv(project) \in dirs

\* C5: the commands of a start that builds a session are ordered: has-session
\* then new-session come first, every set-option and set-environment
\* precedes every window command, the windows are created in configuration
\* order with all commands of one window before any of the next, and
\* attach-session is issued once, as the last command.
WindowVerbs ==
    {"new-window", "kill-window", "move-window", "split-window", "send-keys",
     "select-layout", "select-pane"}
C5_CommandOrder ==
    Building =>
        LET T == TmuxCmds
            n == Len(loc.config.windows)
        IN /\ T[1].verb = "has-session"
           /\ T[2].verb = "new-session"
           /\ \A i \in DOMAIN T :
                /\ i > 2 => T[i].verb \notin {"has-session", "new-session"}
                /\ (T[i].iter >= 0) <=> (T[i].verb \in WindowVerbs)
                /\ T[i].verb = "new-window" =>
                      \A j \in 1..(i - 1) : T[j].iter < T[i].iter
                /\ T[i].verb = "attach-session" => (i = Len(T) /\ Done)
           /\ \A i, j \in DOMAIN T :
                /\ (T[i].verb \in {"set-option", "set-environment"}
                      /\ T[j].verb \in WindowVerbs) => i < j
                /\ (i < j /\ T[i].iter >= 0 /\ T[j].iter >= 0)
                      => T[i].iter <= T[j].iter
           /\ (Done /\ outcome = "returned") =>
                /\ T[Len(T)].verb = "attach-session"
                /\ \A w \in 0..(n - 1) : Count("new-window", w) = 1
C5_Witness ==
    /\ Built
    /\ Len(loc.config.windows) >= 2
    /\ loc.config.environment # {}
    /\ \E i \in DOMAIN loc.config.windows :
          Len(loc.config.windows[i].panes) >= 2 /\ loc.config.windows[i].layout # ""

\* C6: edit, rebuild and delete with any project name return their own
\* handler and that name; 'list' returns list_envs, 'completions' returns
\* completions, and any other single name returns start and the name.
C6_Dispatch ==
    pc = "parsed" =>
        IF Len(argv) = 2 THEN handler = argv[1] /\ project = argv[2]
        ELSE IF argv[1] = "list" THEN handler = "list_envs"
        ELSE IF argv[1] = "completions" THEN handler = "completions"
        ELSE handler = "start" /\ project = argv[1]

\* C7: for a configuration with a virtualenv section (and a virtualenv tool
\* that succeeds), start ends with the directory in place, untouched and
\* with no virtualenv command when it was there before; rebuild completes
\* with a newly created one whether or not one was there; without the
\* section no command is issued and nothing is deleted.
VirtualenvFailed ==
    \E i \in DOMAIN cmds : cmds[i].tool = "virtualenv" /\ cmds[i].status # 0
VirtualenvRun == \E i \in DOMAIN cmds : cmds[i].tool = "virtualenv"
C7_VirtualenvEnsured ==
    (Done /\ handler \in {"start", "rebuild"} /\ HadConfig /\ ~VirtualenvFailed)
        => LET config == pre.configFile
               path == venv_dir(config)
           IN IF ~config.virtualenv.present
              THEN ~VirtualenvRun /\ dirs = pre.dirs
              ELSE IF handler = "start"
              THEN /\ path \in dirs
                   /\ path \in pre.dirs => (~VirtualenvRun /\ dirs = pre.dirs)
              ELSE /\ outcome = "returned"
                   /\ path \in dirs
                   /\ VirtualenvRun

\* C8: in a session start has built, a window configured with k >= 1 panes
\* got k-1 split-window commands and has k panes, the k pane commands are in
\* k distinct panes, one each, and with a virtualenv every pane got the
\* 'source' keystrokes before its command; whatever the pane base index.
ExpectedKeys(config, command) ==
    (IF config.virtualenv.present
     THEN <<<<"source", virtualenv_path(config)>>>> ELSE <<>>) \o <<command>>
C8_PaneKeys ==
    Built =>
        LET config == loc.config
            ws == sessions[config.session_name].windows
        IN \A i \in DOMAIN config.windows :
             LET k == Len(config.windows[i].panes)
                 w == tmux.base_index + i - 1
             IN /\ Count("split-window", i - 1) = k - 1
                /\ w \in DOMAIN ws
                /\ Len(ws[w].panes) = k
                /\ \A j \in 1..k : \E q \in 1..k :
                      /\ ws[w].panes[q].keys =
                            ExpectedKeys(config, config.windows[i].panes[j])
                      /\ \A j2 \in 1..k : j2 # j =>
                            ws[w].panes[q].keys #
                                ExpectedKeys(config, config.windows[i].panes[j2])

\* C9: a session start has built from n >= 1 windows has exactly n windows,
\* at base_index .. base_index+n-1 in configuration order under their
\* configured names, each created after every set-environment (the initial
\* window is gone); and no new-window or move-window was aimed at an
\* occupied index.
C9_Windows ==
    /\ Building =>
          \A i \in DOMAIN cmds :
             cmds[i].verb \in {"new-window", "move-window"} => cmds[i].free
    /\ (Built /\ Len(loc.config.windows) >= 1) =>
          LET config == loc.config
              n == Len(config.windows)
              b == tmux.base_index
              ws == sessions[config.session_name].windows
          IN /\ DOMAIN ws = b..(b + n - 1)
             /\ \A i \in 1..n :
                   /\ ws[b + i - 1].name = config.windows[i].name
                   /\ ws[b + i - 1].env = config.environment
C9_Witness ==
    /\ Built
    /\ Len(loc.config.windows) >= 2
    /\ loc.config.environment # {}
    /\ tmux.base_index = 1

\* C10: the directory confirm_virtualenv makes is the one whose bin/activate
\* start sources and the one delete offers to remove: a delete that finds
\* the configuration's virtualenv in place asks about it, and removes it when
\* the answer is yes.
C10_OneVirtualenvDirectory ==
    /\ (handler = "start" /\ loc.config # NoFile /\ loc.config.virtualenv.present)
          => virtualenv_path(loc.config)
                = join(venv_dir(loc.config), <<"bin", "activate">>)
    /\ (Done /\ handler = "delete" /\ HadConfig
          /\ pre.configFile.virtualenv.present
          /\ venv_dir(pre.configFile) \in pre.dirs)
          => /\ answer.asked
             /\ Affirmative(answer.resp) => venv_dir(pre.configFile) \notin dirs

====
